---- MODULE Spec2Model ----
(***************************************************************************)
(* Window / tray lifecycle of the Nodes desktop shell                       *)
(* (apps/desktop/src-tauri/src/main.rs and tray.rs).                        *)
(*                                                                         *)
(* The program keeps no explicit lifecycle variable: the lifecycle state of *)
(* the specification is read off the process (alive or exited), the timer   *)
(* threads it has spawned and the visibility it last asked the platform     *)
(* for.  Every handler is an operator from the application state and the    *)
(* event's inputs (the results of the platform calls) to the next           *)
(* application state; the actions apply the handlers.                       *)
(*                                                                         *)
(* Model time is counted in milliseconds.  A timer thread whose sleep has   *)
(* elapsed runs before time advances further (the scheduling delay, the     *)
(* "epsilon" of the specification, is taken to be zero).                    *)
(***************************************************************************)
EXTENDS Integers, Sequences, FiniteSets, TLC

VARIABLES
    minimize_to_tray,  \* main.rs:16, the close policy read once in setup
    app,               \* the running instance: process, window, threads
    inst,              \* duplicate launches seen by the single-instance plugin
    lastEvent,         \* the event handled by the last step
    history            \* the Quit selections and close gestures handled so far

vars == <<minimize_to_tray, app, inst, lastEvent, history>>

----------------------------------------------------------------------------
(* Bounds of the model *)

MaxTimers == 2      \* timer threads spawned in one process lifetime
MaxLaunches == 1    \* duplicate launches in one process lifetime
Quantum == 100      \* largest amount of model time one Tick lets pass (ms)

----------------------------------------------------------------------------
(* Program constants *)

\* tray.rs:41  Duration::from_millis(500)
TRAY_GRACE_MS == 500

\* main.rs:42  Duration::from_millis(200)
CLOSE_GRACE_MS == 200

\* tray.rs:14-15  the identifiers of the two menu items; "settings" stands for
\* any identifier the handler does not know
MenuIds == {"show", "quit", "settings"}

\* tray.rs:7,50  tauri::tray::MouseButton
MouseButtons == {"Left", "Right"}

\* tray.rs:50  the variants of TrayIconEvent the handler can be called with
TrayEventKinds == {"Click", "Enter"}

\* main.rs:23,35  the variants of WindowEvent the handler can be called with
WindowEventKinds == {"CloseRequested", "Resized"}

\* the builder without .plugin(tauri_plugin_single_instance::init(..))
NoSingleInstancePlugin == FALSE

\* main.rs:51  the single-instance plugin is registered on the builder
SingleInstancePlugin == TRUE

----------------------------------------------------------------------------
(* Platform calls.  Each returns a Result the handlers discard (let _ =);   *)
(* ok is that result, and a failed call leaves the window as it was.  calls *)
(* is the log of the calls the running handler has made.                    *)

\* window.show()
WindowShow(a, ok) ==
    [a EXCEPT !.requested = "Visible",
              !.visible = IF ok THEN TRUE ELSE @,
              !.calls = Append(@, "show")]

\* window.set_focus()
WindowSetFocus(a, ok) ==
    [a EXCEPT !.focused = IF ok THEN TRUE ELSE @,
              !.calls = Append(@, "set_focus")]

\* window.hide()
WindowHide(a, ok) ==
    [a EXCEPT !.requested = "Hidden",
              !.visible = IF ok THEN FALSE ELSE @,
              !.focused = IF ok THEN FALSE ELSE @,
              !.calls = Append(@, "hide")]

\* emit("app:before-quit", ())
EmitBeforeQuit(a, ok) ==
    [a EXCEPT !.emitted = @ + 1,
              !.calls = Append(@, "emit")]

\* api.prevent_close()
PreventClose(a) ==
    [a EXCEPT !.calls = Append(@, "prevent_close")]

\* std::thread::spawn(move || { sleep(grace); handle.exit(0) })
SpawnExitTimer(a, by, grace) ==
    [a EXCEPT !.timers = Append(@, [by |-> by, grace |-> grace, elapsed |-> 0]),
              !.calls = Append(@, "spawn")]

\* a handler starts with an empty log of platform calls
Begin(a) == [a EXCEPT !.calls = <<>>]

----------------------------------------------------------------------------
(* The results of the platform calls one handler makes *)

Results == [show : BOOLEAN, set_focus : BOOLEAN, hide : BOOLEAN, emit : BOOLEAN]

AllOk == [show |-> TRUE, set_focus |-> TRUE, hide |-> TRUE, emit |-> TRUE]

----------------------------------------------------------------------------
(* tray.rs:24-48  on_menu_event: match event.id.as_ref() *)

\* "show" with window.show()? in place of let _ = window.show()
MenuShow_propagates(a, r) ==
    IF a.window_exists
    THEN IF r.show
         THEN WindowSetFocus(WindowShow(Begin(a), r.show), r.set_focus)
         ELSE [Begin(a) EXCEPT !.calls = <<"show">>]
    ELSE Begin(a)

\* tray.rs:26-31  "show"
MenuShow(a, r) ==
    IF a.window_exists
    THEN WindowSetFocus(WindowShow(Begin(a), r.show), r.set_focus)
    ELSE Begin(a)

\* "quit" with Duration::from_secs where the code has from_millis
MenuQuit_from_secs(a, r) ==
    LET notified == IF a.window_exists
                    THEN EmitBeforeQuit(Begin(a), r.emit)
                    ELSE Begin(a)
    IN  SpawnExitTimer(notified, "tray", TRAY_GRACE_MS * 1000)

\* "quit" with the close handler's duration
MenuQuit_close_grace(a, r) ==
    LET notified == IF a.window_exists
                    THEN EmitBeforeQuit(Begin(a), r.emit)
                    ELSE Begin(a)
    IN  SpawnExitTimer(notified, "tray", CLOSE_GRACE_MS)

\* "quit" that hides the window before it emits
MenuQuit_hides(a, r) ==
    LET notified == IF a.window_exists
                    THEN EmitBeforeQuit(WindowHide(Begin(a), r.hide), r.emit)
                    ELSE Begin(a)
    IN  SpawnExitTimer(notified, "tray", TRAY_GRACE_MS)

\* "quit" with the thread spawned inside if let Some(window)
MenuQuit_needs_window(a, r) ==
    IF a.window_exists
    THEN SpawnExitTimer(EmitBeforeQuit(Begin(a), r.emit), "tray", TRAY_GRACE_MS)
    ELSE Begin(a)

\* tray.rs:32-45  "quit"
MenuQuit(a, r) ==
    LET notified == IF a.window_exists
                    THEN EmitBeforeQuit(Begin(a), r.emit)
                    ELSE Begin(a)
    IN  SpawnExitTimer(notified, "tray", TRAY_GRACE_MS)

\* the match with the bodies of its two arms exchanged
on_menu_event_swapped(a, id, r) ==
    CASE id = "show" -> MenuQuit(a, r)
      [] id = "quit" -> MenuShow(a, r)
      [] OTHER       -> Begin(a)

\* the match with a wildcard arm that shows the window
on_menu_event_default_show(a, id, r) ==
    CASE id = "show" -> MenuShow(a, r)
      [] id = "quit" -> MenuQuit(a, r)
      [] OTHER       -> MenuShow(a, r)

on_menu_event(a, id, r) ==
    CASE id = "show" -> MenuShow(a, r)
      [] id = "quit" -> MenuQuit(a, r)
      [] OTHER       -> Begin(a)

----------------------------------------------------------------------------
(* tray.rs:49-57  on_tray_icon_event *)

\* a left click that toggles the window instead of showing it
on_tray_icon_event_toggle(a, kind, button, r) ==
    IF kind = "Click" /\ button = "Left"
    THEN IF a.window_exists
         THEN IF a.visible
              THEN WindowHide(Begin(a), r.hide)
              ELSE WindowSetFocus(WindowShow(Begin(a), r.show), r.set_focus)
         ELSE Begin(a)
    ELSE Begin(a)

on_tray_icon_event(a, kind, button, r) ==
    IF kind = "Click" /\ button = "Left"
    THEN IF a.window_exists
         THEN WindowSetFocus(WindowShow(Begin(a), r.show), r.set_focus)
         ELSE Begin(a)
    ELSE Begin(a)

----------------------------------------------------------------------------
(* main.rs:18-47  on_window_event, one closure per policy *)

\* the minimize closure with the quit closure's body pasted into it
on_window_event_minimize_quits(a, kind, r) ==
    IF kind = "CloseRequested"
    THEN SpawnExitTimer(PreventClose(EmitBeforeQuit(Begin(a), r.emit)),
                        "close", CLOSE_GRACE_MS)
    ELSE Begin(a)

\* the minimize closure without api.prevent_close()
on_window_event_minimize_no_prevent(a, kind, r) ==
    IF kind = "CloseRequested"
    THEN WindowHide(Begin(a), r.hide)
    ELSE Begin(a)

\* main.rs:22-28  minimize_to_tray
on_window_event_minimize(a, kind, r) ==
    IF kind = "CloseRequested"
    THEN WindowHide(PreventClose(Begin(a)), r.hide)
    ELSE Begin(a)

\* the quit closure with the thread spawned before the emit
on_window_event_quit_spawn_first(a, kind, r) ==
    IF kind = "CloseRequested"
    THEN EmitBeforeQuit(
             PreventClose(SpawnExitTimer(Begin(a), "close", CLOSE_GRACE_MS)),
             r.emit)
    ELSE Begin(a)

\* the quit closure with the tray handler's duration
on_window_event_quit_tray_grace(a, kind, r) ==
    IF kind = "CloseRequested"
    THEN SpawnExitTimer(PreventClose(EmitBeforeQuit(Begin(a), r.emit)),
                        "close", TRAY_GRACE_MS)
    ELSE Begin(a)

\* main.rs:34-46  quit on close
on_window_event_quit(a, kind, r) ==
    IF kind = "CloseRequested"
    THEN SpawnExitTimer(PreventClose(EmitBeforeQuit(Begin(a), r.emit)),
                        "close", CLOSE_GRACE_MS)
    ELSE Begin(a)

\* main.rs:18,30  the closure setup registered
on_window_event(policy, a, kind, r) ==
    IF policy
    THEN on_window_event_minimize(a, kind, r)
    ELSE on_window_event_quit(a, kind, r)

\* main.rs:25,39  what the platform does once the closure has returned: a
\* CloseRequested that was not prevented closes the window
CloseOutcome(a, kind) ==
    IF kind = "CloseRequested" /\ ~(\E i \in DOMAIN a.calls : a.calls[i] = "prevent_close")
    THEN [a EXCEPT !.window_exists = FALSE, !.visible = FALSE,
                   !.focused = FALSE]
    ELSE a

----------------------------------------------------------------------------
(* main.rs:51-57  the single-instance callback *)

\* the callback without its set_focus line
on_second_instance_no_focus(a, r) ==
    IF a.window_exists
    THEN WindowShow(Begin(a), r.show)
    ELSE Begin(a)

on_second_instance(a, r) ==
    IF a.window_exists
    THEN WindowSetFocus(WindowShow(Begin(a), r.show), r.set_focus)
    ELSE Begin(a)

----------------------------------------------------------------------------
(* The timer threads: tray.rs:40-43 and main.rs:41-44 *)

Min(S) == CHOOSE x \in S : \A y \in S : x <= y

Remaining(t) == t.grace - t.elapsed

\* sleep(grace) has returned
Expired(t) == t.elapsed >= t.grace

\* an exit request that returns without ending the process
Exit_returns(a) == [a EXCEPT !.calls = <<>>]

\* app_handle.exit(0)
Exit(a) == [a EXCEPT !.alive = FALSE, !.exits = @ + 1, !.calls = <<>>]

\* model time d passes in every sleeping thread
Sleep(a, d) ==
    [a EXCEPT !.timers = [i \in DOMAIN @ |-> [@[i] EXCEPT !.elapsed = @ + d]]]

----------------------------------------------------------------------------
(* The lifecycle state of the instance *)

LifecycleState(a) ==
    IF ~a.alive THEN "Terminated"
    ELSE IF a.timers # <<>> THEN "ShuttingDown"
    ELSE IF a.requested = "Visible" THEN "Running-Visible"
    ELSE "Running-Hidden"

Running(a) == LifecycleState(a) \in {"Running-Visible", "Running-Hidden"}

----------------------------------------------------------------------------
(* Initial state: main.rs:8-63, setup has run, the window "main" exists and *)
(* is shown, no thread has been spawned.                                    *)

InitApp ==
    [alive |-> TRUE, exits |-> 0,
     window_exists |-> TRUE, visible |-> TRUE, focused |-> TRUE,
     requested |-> "Visible",
     emitted |-> 0,
     timers |-> <<>>, calls |-> <<>>]

InitInst == [waiting |-> 0, exited |-> 0, callbacks |-> 0,
             instances |-> 1, windows |-> 1]

Ev(src, arg) == [src |-> src, arg |-> arg]

Init ==
    /\ minimize_to_tray \in BOOLEAN
    /\ app = InitApp
    /\ inst = InitInst
    /\ lastEvent = Ev("setup", "")
    /\ history = {}

\* the events the history keeps: the two that the specification calls a quit
\* intent or a close gesture
Recorded == {Ev("menu", "quit"), Ev("window", "CloseRequested")}

Handled(e) ==
    /\ lastEvent' = e
    /\ history' = IF e \in Recorded THEN history \cup {e} ELSE history

----------------------------------------------------------------------------
(* Actions *)

\* a tray menu item is selected
TrayMenuEvent ==
    /\ app.alive
    /\ \E id \in MenuIds, r \in Results :
          /\ id = "quit" => Len(app.timers) < MaxTimers
          /\ app' = on_menu_event(app, id, r)
          /\ Handled(Ev("menu", id))
    /\ UNCHANGED <<minimize_to_tray, inst>>

\* the tray icon reports a mouse event
TrayIconEvent ==
    /\ app.alive
    /\ \E kind \in TrayEventKinds, button \in MouseButtons, r \in Results :
          /\ app' = on_tray_icon_event(app, kind, button, r)
          /\ Handled(Ev("tray", IF kind = "Click" THEN button ELSE kind))
    /\ UNCHANGED <<minimize_to_tray, inst>>

\* the main window reports an event
WindowEvent ==
    /\ app.alive
    /\ app.window_exists
    /\ \E kind \in WindowEventKinds, r \in Results :
          /\ (kind = "CloseRequested" /\ ~minimize_to_tray)
                => Len(app.timers) < MaxTimers
          /\ app' = CloseOutcome(
                       on_window_event(minimize_to_tray, app, kind, r), kind)
          /\ Handled(Ev("window", kind))
    /\ UNCHANGED <<minimize_to_tray, inst>>

\* a second process of the application is started
LaunchSecond ==
    /\ app.alive
    /\ inst.waiting + inst.exited + (inst.instances - 1) < MaxLaunches
    /\ inst' = IF SingleInstancePlugin
               THEN [inst EXCEPT !.waiting = @ + 1]
               ELSE [inst EXCEPT !.instances = @ + 1, !.windows = @ + 1]
    /\ Handled(Ev("launch", ""))
    /\ UNCHANGED <<minimize_to_tray, app>>

\* the plugin hands the launch to the running instance, whose callback runs;
\* the launching process exits
SecondInstance ==
    /\ app.alive
    /\ inst.waiting > 0
    /\ \E r \in Results : app' = on_second_instance(app, r)
    /\ inst' = [inst EXCEPT !.waiting = @ - 1, !.exited = @ + 1,
                            !.callbacks = @ + 1]
    /\ Handled(Ev("second_instance", ""))
    /\ UNCHANGED minimize_to_tray

\* model time passes while every timer thread is still asleep
Tick ==
    /\ app.alive
    /\ app.timers # <<>>
    /\ \A i \in DOMAIN app.timers : ~Expired(app.timers[i])
    /\ LET d == Min({Quantum} \cup
                    {Remaining(app.timers[i]) : i \in DOMAIN app.timers})
       IN  app' = Sleep(app, d)
    /\ lastEvent' = Ev("tick", "")
    /\ UNCHANGED <<minimize_to_tray, inst, history>>

\* a timer thread that still runs after the process has exited
TimerFire_after_exit ==
    /\ \E i \in DOMAIN app.timers :
          /\ Expired(app.timers[i])
          /\ app' = Exit(app)
          /\ Handled(Ev("timer", app.timers[i].by))
    /\ UNCHANGED <<minimize_to_tray, inst>>

\* a timer thread wakes up and exits the process
TimerFire ==
    /\ app.alive
    /\ \E i \in DOMAIN app.timers :
          /\ Expired(app.timers[i])
          /\ app' = Exit(app)
          /\ Handled(Ev("timer", app.timers[i].by))
    /\ UNCHANGED <<minimize_to_tray, inst>>

Next ==
    \/ TrayMenuEvent
    \/ TrayIconEvent
    \/ WindowEvent
    \/ LaunchSecond
    \/ SecondInstance
    \/ Tick
    \/ TimerFire

Spec == Init /\ [][Next]_vars

\* tray.rs:27,34,52 and main.rs:53: get_webview_window("main") returns None.
\* No code of the application removes the window; here the platform does.
WindowDestroyed ==
    /\ app.alive
    /\ app.window_exists
    /\ app' = [Begin(app) EXCEPT !.window_exists = FALSE, !.visible = FALSE,
                                 !.focused = FALSE]
    /\ Handled(Ev("window", "Destroyed"))
    /\ UNCHANGED <<minimize_to_tray, inst>>

NextWindowGone ==
    \/ Next
    \/ WindowDestroyed

\* the timer threads are scheduled and their sleeps end; nothing is assumed
\* of the main context or of the frontend
FairSpec == Spec /\ WF_vars(Tick) /\ WF_vars(TimerFire)

\* the same, in an environment that may take the window away
FairSpecWindowGone ==
    Init /\ [][NextWindowGone]_vars /\ WF_vars(Tick) /\ WF_vars(TimerFire)

----------------------------------------------------------------------------
(* Vocabulary of the claims *)

State == LifecycleState(app)

CloseEv == Ev("window", "CloseRequested")
QuitEv == Ev("menu", "quit")

----------------------------------------------------------------------------
\* C1: under the minimize-to-tray policy a CloseRequested handled in a
\* Running state suppresses the OS close and hides the window, in that order
\* and with no other call: the state after it is Running-Hidden, nothing is
\* emitted, no timer is armed and the process stays alive.  A run of close
\* gestures from Running-Visible therefore never leaves the Running states.
C1_CloseStep ==
    (minimize_to_tray /\ lastEvent' = CloseEv /\ Running(app))
      => /\ LifecycleState(app') = "Running-Hidden"
         /\ app'.calls = <<"prevent_close", "hide">>
         /\ app'.emitted = app.emitted
         /\ app'.timers = app.timers
         /\ app'.alive

\* the handler itself, for every result of hide: the window is hidden where
\* the call succeeds
C1_CloseEffect ==
    (minimize_to_tray /\ Running(app)) =>
      \A r \in Results :
        LET c == on_window_event(minimize_to_tray, app, "CloseRequested", r)
        IN  /\ LifecycleState(c) = "Running-Hidden"
            /\ r.hide => ~c.visible
            /\ c.timers = <<>>
            /\ c.emitted = app.emitted

C1_CloseHidesUnderMinimize ==
    [][C1_CloseStep]_vars /\ []C1_CloseEffect

C1_Witness ==
    /\ minimize_to_tray
    /\ lastEvent = CloseEv
    /\ history = {CloseEv}
    /\ State = "Running-Hidden"
    /\ ~app.visible
    /\ app.alive

\* C2: a tray Quit selected while the state is ShuttingDown arms no further
\* timer and leaves the state ShuttingDown.
C2_QuitIsNoOpWhenShuttingDown ==
    [][ (lastEvent' = QuitEv /\ State = "ShuttingDown")
          => /\ app'.timers = app.timers
             /\ LifecycleState(app') = "ShuttingDown" ]_vars

\* C3: from the first quit intent on, "app:before-quit" has been emitted
\* exactly once.
C3_BeforeQuitEmittedOnce ==
    State \in {"ShuttingDown", "Terminated"} => app.emitted = 1

\* C4: a CloseRequested handled while the state is ShuttingDown changes
\* neither the state nor the window's visibility, emits nothing and arms no
\* timer.
C4_CloseIsNoOpWhenShuttingDown ==
    [][ (lastEvent' = CloseEv /\ State = "ShuttingDown")
          => /\ LifecycleState(app') = "ShuttingDown"
             /\ app'.requested = app.requested
             /\ app'.visible = app.visible
             /\ app'.emitted = app.emitted
             /\ app'.timers = app.timers ]_vars

\* C5: once the state is ShuttingDown the process is eventually Terminated,
\* given only that the timer threads run (FairSpec assumes nothing of the
\* main context or of the frontend).
C5_ShuttingDownLeadsToTerminated ==
    (State = "ShuttingDown") ~> (State = "Terminated")

C5_Witness ==
    /\ State = "Terminated"
    /\ lastEvent.src = "timer"
    /\ app.exits = 1
    /\ app.timers # <<>>

\* C6: a tray Quit selected in Running-Visible emits "app:before-quit" once
\* and makes the state ShuttingDown; while the process is alive no more than
\* 500 ms of model time have passed since a Quit selection, and the process
\* does terminate, whatever is handled in between.
C6_QuitStep ==
    (lastEvent' = QuitEv /\ State = "Running-Visible")
      => /\ app'.emitted = app.emitted + 1
         /\ app'.calls = <<"emit", "spawn">>
         /\ LifecycleState(app') = "ShuttingDown"
         /\ app'.timers = <<[by |-> "tray", grace |-> 500, elapsed |-> 0]>>

C6_WithinGrace ==
    \A i \in DOMAIN app.timers :
        app.timers[i].by = "tray" => app.timers[i].elapsed <= 500

C6_QuitTerminatesWithin500ms ==
    /\ [][C6_QuitStep]_vars
    /\ []C6_WithinGrace
    /\ (QuitEv \in history) ~> (State = "Terminated")

C6_Witness ==
    /\ State = "Terminated"
    /\ app.timers[1].by = "tray"
    /\ app.timers[1].elapsed = 500
    /\ Len(app.timers) > 1
    /\ app.emitted > 1

\* C7: whenever the state is ShuttingDown or Terminated, a tray Quit has been
\* selected or, under the quit-on-close policy, a CloseRequested has been
\* handled; activations, unknown menu identifiers, other tray events and
\* minimize-to-tray closes alone never arm a timer or end the process.
C7_QuitIntentSeen ==
    \/ QuitEv \in history
    \/ ~minimize_to_tray /\ CloseEv \in history

C7_ShutdownOnlyByQuitIntent ==
    (app.timers # <<>> \/ ~app.alive) => C7_QuitIntentSeen

C7_Witness ==
    /\ State = "Terminated"
    /\ minimize_to_tray
    /\ history = {QuitEv, CloseEv}
    /\ inst.callbacks > 0

\* C8: in a Running state the three activation triggers (menu "show", tray
\* left click, second-instance callback) have the same effect for the same
\* platform results: show then set_focus and nothing else, state
\* Running-Visible, the window visible and focused where the calls succeed,
\* nothing emitted and no timer armed.
C8_ActivationsAgree ==
    Running(app) =>
      \A r \in Results :
        LET m == on_menu_event(app, "show", r)
            t == on_tray_icon_event(app, "Click", "Left", r)
            s == on_second_instance(app, r)
        IN  /\ m = t
            /\ t = s
            /\ LifecycleState(s) = "Running-Visible"
            /\ s.calls = <<"show", "set_focus">>
            /\ r.show => s.visible
            /\ r.set_focus => s.focused
            /\ s.emitted = app.emitted
            /\ s.timers = app.timers
            /\ s.alive

C8_Witness ==
    /\ lastEvent = Ev("second_instance", "")
    /\ minimize_to_tray
    /\ CloseEv \in history
    /\ State = "Running-Visible"
    /\ app.calls = <<"show", "set_focus">>
    /\ app.visible
    /\ app.focused

\* C9: in a Running state, activating twice in a row leaves the application
\* as activating once does (for the same platform results the two states are
\* equal): Running-Visible, and visible and focused where the second
\* activation's calls succeed.
C9_Twice(act(_, _)) ==
    \A r1, r2 \in Results :
        LET once == act(app, r1)
            twice == act(once, r2)
        IN  /\ LifecycleState(once) = "Running-Visible"
            /\ LifecycleState(twice) = "Running-Visible"
            /\ r1 = r2 => twice = once
            /\ r2.show => twice.visible
            /\ r2.set_focus => twice.focused
            /\ twice.timers = app.timers
            /\ twice.emitted = app.emitted

C9_MenuShow(a, r) == on_menu_event(a, "show", r)
C9_LeftClick(a, r) == on_tray_icon_event(a, "Click", "Left", r)

C9_ActivateIdempotent ==
    Running(app) =>
      /\ C9_Twice(C9_LeftClick)
      /\ C9_Twice(C9_MenuShow)
      /\ C9_Twice(on_second_instance)

C9_Witness ==
    /\ lastEvent = Ev("tray", "Left")
    /\ State = "Running-Visible"
    /\ app.visible
    /\ app.focused
    /\ app = on_tray_icon_event(app, "Click", "Left", AllOk)

\* C10: a duplicate launch creates no second window and no second running
\* instance; every launching process that has exited caused exactly one run
\* of the callback in the existing instance, and the callback run in
\* Running-Hidden makes the state Running-Visible.
C10_OneInstance ==
    /\ inst.instances = 1
    /\ inst.windows = 1
    /\ inst.callbacks = inst.exited
    /\ State = "Running-Hidden" =>
         \A r \in Results :
            /\ LifecycleState(on_second_instance(app, r)) = "Running-Visible"
            /\ on_second_instance(app, r).calls = <<"show", "set_focus">>

C10_CallbackStep ==
    (lastEvent' = Ev("second_instance", ""))
      => /\ inst'.callbacks = inst.callbacks + 1
         /\ inst'.exited = inst.exited + 1
         /\ inst'.waiting = inst.waiting - 1
         /\ Running(app) => LifecycleState(app') = "Running-Visible"

C10_SecondLaunchActivatesOnce ==
    []C10_OneInstance /\ [][C10_CallbackStep]_vars

C10_Witness ==
    /\ lastEvent = Ev("second_instance", "")
    /\ inst.exited = 1
    /\ inst.callbacks = 1
    /\ inst.waiting = 0
    /\ minimize_to_tray
    /\ CloseEv \in history
    /\ State = "Running-Visible"
    /\ app.visible

\* C11: the menu handler dispatches by identifier only: "show" activates,
\* "quit" emits and spawns the timer thread, and any other identifier, like
\* any tray icon event that is not a left click, makes no platform call and
\* leaves the application (process, window, emissions, timers) as it was.
C11_Untouched(a, b) == b = Begin(a)

C11_Dispatch ==
    app.alive =>
      \A r \in Results :
        /\ \A id \in MenuIds \ {"show", "quit"} :
              C11_Untouched(app, on_menu_event(app, id, r))
        /\ \A kind \in TrayEventKinds, button \in MouseButtons :
              ~(kind = "Click" /\ button = "Left")
                 => C11_Untouched(app, on_tray_icon_event(app, kind, button, r))
        /\ on_menu_event(app, "show", r).calls = <<"show", "set_focus">>
        /\ on_menu_event(app, "show", r).timers = app.timers
        /\ on_menu_event(app, "quit", r).calls = <<"emit", "spawn">>
        /\ Len(on_menu_event(app, "quit", r).timers) = Len(app.timers) + 1
        /\ on_menu_event(app, "quit", r).visible = app.visible

C11_IgnoredStep ==
    (lastEvent' \in {Ev("menu", "settings"), Ev("tray", "Right"),
                     Ev("tray", "Enter")})
      => /\ app' = Begin(app)
         /\ LifecycleState(app') = State
         /\ inst' = inst

C11_MenuDispatchesById ==
    []C11_Dispatch /\ [][C11_IgnoredStep]_vars

C11_Witness ==
    /\ lastEvent = Ev("menu", "settings")
    /\ State = "ShuttingDown"
    /\ app.requested = "Hidden"
    /\ ~app.visible
    /\ app.emitted = 1
    /\ app.calls = <<>>

\* C12 (as claimed): in the handler that arms a timer, an "app:before-quit"
\* emission precedes the arming.
C12_EmitPrecedes(calls, i) == \E j \in 1..(i - 1) : calls[j] = "emit"

C12_Arming ==
    \A i \in DOMAIN app.calls :
        app.calls[i] = "spawn" =>
           IF app.window_exists \/ lastEvent = CloseEv
           THEN C12_EmitPrecedes(app.calls, i)
           ELSE QuitEv \in history /\ app.calls = <<"spawn">>

C12_Handlers ==
    app.alive =>
      \A r \in Results :
        /\ on_menu_event(app, "quit", r).calls
             = IF app.window_exists THEN <<"emit", "spawn">> ELSE <<"spawn">>
        /\ on_window_event_quit(app, "CloseRequested", r).calls
             = <<"emit", "prevent_close", "spawn">>
        /\ on_menu_event(app, "quit", r).alive

C13_Prevented(a) == \E i \in DOMAIN a.calls : a.calls[i] = "prevent_close"

C13_Handlers ==
    (app.alive /\ app.window_exists) =>
      \A policy \in BOOLEAN, r \in Results :
        LET h == on_window_event(policy, app, "CloseRequested", r)
            c == CloseOutcome(h, "CloseRequested")
        IN  /\ C13_Prevented(h)
            /\ c.window_exists
            /\ c.alive

C13_CloseStep ==
    (lastEvent' = CloseEv)
      => /\ C13_Prevented(app')
         /\ app'.window_exists
         /\ app'.alive

C13_ExitStep ==
    (app.alive /\ ~app'.alive)
      => /\ lastEvent'.src = "timer"
         /\ \E i \in DOMAIN app.timers : app.timers[i].elapsed >= app.timers[i].grace

C13_CloseAlwaysIntercepted ==
    /\ []C13_Handlers
    /\ [][C13_CloseStep]_vars
    /\ [][C13_ExitStep]_vars

C13_Witness ==
    /\ lastEvent = CloseEv
    /\ minimize_to_tray
    /\ State = "ShuttingDown"
    /\ app.calls = <<"prevent_close", "hide">>
    /\ app.window_exists
    /\ app.timers[1].elapsed > 0

\* C14: whatever the platform's show, set_focus, hide and emit return, a
\* handler makes the same calls in the same order as when they all succeed
\* (set_focus after a failed show, the thread spawned after a failed emit),
\* and the lifecycle state, the timers and the emission count after it are
\* those of the all-successful run; the process stays alive.
C14_SameLogic(f, ok) ==
    /\ f.calls = ok.calls
    /\ LifecycleState(f) = LifecycleState(ok)
    /\ f.requested = ok.requested
    /\ f.timers = ok.timers
    /\ f.emitted = ok.emitted
    /\ f.alive

C14_FailuresAreNotFatal ==
    app.alive =>
      \A r \in Results :
        /\ \A id \in MenuIds :
              C14_SameLogic(on_menu_event(app, id, r),
                            on_menu_event(app, id, AllOk))
        /\ C14_SameLogic(on_tray_icon_event(app, "Click", "Left", r),
                         on_tray_icon_event(app, "Click", "Left", AllOk))
        /\ C14_SameLogic(on_second_instance(app, r),
                         on_second_instance(app, AllOk))
        /\ \A policy \in BOOLEAN :
              C14_SameLogic(on_window_event(policy, app, "CloseRequested", r),
                            on_window_event(policy, app, "CloseRequested", AllOk))
        /\ on_menu_event(app, "show", r).calls = <<"show", "set_focus">>
        /\ Len(on_menu_event(app, "quit", r).timers) = Len(app.timers) + 1
        /\ on_window_event_minimize(app, "CloseRequested", r).requested = "Hidden"

C14_Witness ==
    /\ lastEvent = Ev("menu", "show")
    /\ app.calls = <<"show", "set_focus">>
    /\ State = "Running-Visible"
    /\ ~app.visible
    /\ ~app.focused
    /\ app.alive

\* C15: under the quit-on-close policy a CloseRequested handled in
\* Running-Visible emits "app:before-quit", suppresses the OS close and arms
\* a 200 ms timer; the state becomes ShuttingDown and the window is not
\* hidden.  The process terminates when that timer's 200 ms are over.
C15_CloseStep ==
    (~minimize_to_tray /\ lastEvent' = CloseEv /\ State = "Running-Visible")
      => /\ app'.calls = <<"emit", "prevent_close", "spawn">>
         /\ app'.emitted = app.emitted + 1
         /\ app'.timers = <<[by |-> "close", grace |-> 200, elapsed |-> 0]>>
         /\ LifecycleState(app') = "ShuttingDown"
         /\ app'.visible = app.visible
         /\ app'.requested = "Visible"
         /\ app'.window_exists

C15_CloseArmedFirst ==
    /\ app.timers # <<>>
    /\ app.timers[1].by = "close"

C15_EndsAt200 ==
    C15_CloseArmedFirst =>
       /\ app.timers[1].elapsed <= 200
       /\ ~app.alive => /\ app.timers[1].elapsed = 200
                        /\ lastEvent = Ev("timer", "close")

C15_QuitOnClose ==
    /\ [][C15_CloseStep]_vars
    /\ []C15_EndsAt200
    /\ C15_CloseArmedFirst ~> (State = "Terminated")

C15_Witness ==
    /\ ~minimize_to_tray
    /\ State = "Terminated"
    /\ history = {CloseEv}
    /\ app.timers = <<[by |-> "close", grace |-> 200, elapsed |-> 200]>>
    /\ app.visible
    /\ app.emitted = 1

\* C16: a timer's grace period is decided by the handler that arms it and by
\* nothing else: a tray Quit arms 500 ms, a quit-on-close CloseRequested arms
\* 200 ms, in every state and for every result of the platform calls; no
\* other step arms a timer; and 500 >= 200.
C16_Armed(a, b, by, grace) ==
    b.timers = Append(a.timers, [by |-> by, grace |-> grace, elapsed |-> 0])

C16_Handlers ==
    /\ TRAY_GRACE_MS >= CLOSE_GRACE_MS
    /\ \A i \in DOMAIN app.timers :
          app.timers[i].grace = (IF app.timers[i].by = "tray" THEN 500 ELSE 200)
    /\ app.alive =>
         \A r \in Results :
           /\ C16_Armed(app, on_menu_event(app, "quit", r), "tray", 500)
           /\ C16_Armed(app, on_window_event_quit(app, "CloseRequested", r),
                        "close", 200)

C16_ArmingStep ==
    /\ lastEvent' = QuitEv => C16_Armed(app, app', "tray", 500)
    /\ (lastEvent' = CloseEv /\ ~minimize_to_tray)
          => C16_Armed(app, app', "close", 200)
    /\ ~(lastEvent' = QuitEv \/ (lastEvent' = CloseEv /\ ~minimize_to_tray))
          => Len(app'.timers) = Len(app.timers)

C16_GraceByEntryPoint ==
    []C16_Handlers /\ [][C16_ArmingStep]_vars

C16_Witness ==
    /\ ~minimize_to_tray
    /\ Len(app.timers) = 2
    /\ app.timers[1].by = "tray" /\ app.timers[1].grace = 500
    /\ app.timers[2].by = "close" /\ app.timers[2].grace = 200
    /\ app.timers[1].elapsed > app.timers[2].elapsed

\* C17: once the process has exited nothing changes any more: no step after
\* termination alters the application (state, window, emissions, timers) or
\* the launch bookkeeping, a timer whose sleep is over at that point does not
\* run, and exit has happened exactly once.
C17_NothingAfterExit ==
    ~app.alive => (app' = app /\ inst' = inst /\ history' = history)

C17_ExitedOnce ==
    /\ app.exits <= 1
    /\ app.alive <=> app.exits = 0

C17_TerminatedIsTerminal ==
    [][C17_NothingAfterExit]_vars /\ []C17_ExitedOnce

C17_Witness ==
    /\ State = "Terminated"
    /\ app.exits = 1
    /\ Len(app.timers) = 2
    /\ Expired(app.timers[1])
    /\ Expired(app.timers[2])

\* C18: while a timer is pending an activation (menu "show", tray left
\* click, second-instance callback) shows and focuses the window and leaves
\* every pending timer as it is; and the process terminates exactly when the
\* earliest-armed timer's grace period is over.
C18_ActivationKeepsTimers ==
    State = "ShuttingDown" =>
      \A r \in Results :
        \A h \in {on_menu_event(app, "show", r),
                  on_tray_icon_event(app, "Click", "Left", r),
                  on_second_instance(app, r)} :
            /\ h.calls = <<"show", "set_focus">>
            /\ h.timers = app.timers
            /\ h.alive

C18_EndsAtEarliestArmedExpiry ==
    State = "Terminated" => app.timers[1].elapsed = app.timers[1].grace

C18_TerminationFixedByFirstTimer ==
    C18_ActivationKeepsTimers /\ C18_EndsAtEarliestArmedExpiry

\* C19: the tray Quit handler calls neither show nor hide: the window is as
\* visible after it as before, and stays so through the grace period and the
\* termination; only an activation or a close gesture changes visibility.
C19_SameWindow(a, b) ==
    /\ b.visible = a.visible
    /\ b.requested = a.requested
    /\ b.focused = a.focused
    /\ b.window_exists = a.window_exists

C19_QuitHandler ==
    app.alive =>
      \A r \in Results :
        /\ C19_SameWindow(app, on_menu_event(app, "quit", r))
        /\ on_menu_event(app, "quit", r).calls = <<"emit", "spawn">>

C19_ChangesVisibility ==
    {Ev("menu", "show"), Ev("tray", "Left"), Ev("second_instance", ""), CloseEv}

C19_Step ==
    (lastEvent' \notin C19_ChangesVisibility) => C19_SameWindow(app, app')

C19_QuitKeepsVisibility ==
    []C19_QuitHandler /\ [][C19_Step]_vars

C19_Witness ==
    /\ State = "Terminated"
    /\ minimize_to_tray
    /\ history = {CloseEv, QuitEv}
    /\ Len(app.timers) = 1
    /\ app.requested = "Hidden"
    /\ ~app.visible

\* C20: with no main window to be found, the tray Quit handler emits nothing
\* and still arms the 500 ms timer, while menu "show", a tray left click and
\* the second-instance callback make no call and change nothing; and a
\* process shutting down without a window still terminates.
C20_Handlers ==
    (app.alive /\ ~app.window_exists) =>
      \A r \in Results :
        LET q == on_menu_event(app, "quit", r)
        IN  /\ q.calls = <<"spawn">>
            /\ q.emitted = app.emitted
            /\ q.timers = Append(app.timers,
                            [by |-> "tray", grace |-> 500, elapsed |-> 0])
            /\ LifecycleState(q) = "ShuttingDown"
            /\ on_menu_event(app, "show", r) = Begin(app)
            /\ on_tray_icon_event(app, "Click", "Left", r) = Begin(app)
            /\ on_second_instance(app, r) = Begin(app)

C20_ShuttingDownWithoutWindow ==
    /\ ~app.window_exists
    /\ State = "ShuttingDown"

C20_QuitWithoutWindow ==
    /\ []C20_Handlers
    /\ C20_ShuttingDownWithoutWindow ~> (State = "Terminated")

C20_Witness ==
    /\ State = "Terminated"
    /\ ~app.window_exists
    /\ app.emitted = 0
    /\ app.timers = <<[by |-> "tray", grace |-> 500, elapsed |-> 500]>>
    /\ history = {QuitEv}
    /\ inst.callbacks = 1

====
